---------------------------- MODULE Spec2Model ----------------------------
(***************************************************************************)
(* Decimal128 of cpp/src/arrow/util/decimal.cc: a signed 128-bit integer   *)
(* held as high_bits_ (int64_t) and low_bits_ (uint64_t).                  *)
(*                                                                         *)
(* Machine integers keep their width.  TLC's integers are 32 bits wide, so *)
(* a C++ unsigned integer of 16*w bits is a sequence of w digits in base   *)
(* 2^16, least significant digit first: uint32_t has 2 digits, uint64_t 4, *)
(* and the 128-bit value 8.  int64_t is the same 4 digits read in two's    *)
(* complement.  A std::string is a sequence of one-character strings.      *)
(***************************************************************************)
EXTENDS Integers, Sequences, FiniteSets

VARIABLES pc,     \* "start" before the call, then the name of the operation called
          x,      \* the Decimal128 the operation is called on (*this)
          y,      \* the right operand, divisor or multiplier (Decimal128)
          n,      \* int32_t arguments of the call: [a |-> ..., b |-> ...]
          str,    \* the std::string argument
          ub,     \* what the build makes of an undefined shift or read
          out     \* what the call returned or wrote

vars == <<pc, x, y, n, str, ub, out>>

----------------------------------------------------------------------------
(* Fixed-width unsigned arithmetic on digit sequences.                     *)

Base == 256 * 256

W32 == 32 \div 16

W64 == 64 \div 16

W128 == 128 \div 16

Dig(a, i) == IF i >= 1 /\ i <= Len(a) THEN a[i] ELSE 0

\* TLC computes a function [i \in 1..w |-> e] anew at each application and a
\* definition when it is first used.  Tup(f) is f, computed once, as a tuple.
\* Local([v \in {e} |-> body]) is body with v the value of e, computed once
\* and before body: a local variable, in the order of the source's statements.
Tup(f) == f \o <<>>

Local(f) == f[CHOOSE val \in DOMAIN f : TRUE]

\* static_cast to the unsigned type of w digits: truncation or zero extension
Cast(a, w) == Tup([i \in 1..w |-> Dig(a, i)])

\* an int literal 0 <= k < 2^31 as an unsigned value of w digits
Lit(k, w) == Tup([i \in 1..w |-> IF i = 1 THEN k % Base
                                 ELSE IF i = 2 THEN k \div Base ELSE 0])

\* a 64-bit literal written as in the source, most significant 16 bits first
Hex64(d3, d2, d1, d0) == <<d0, d1, d2, d3>>

IsZero(a) == \A i \in 1..Len(a) : a[i] = 0

Max2(i, j) == IF i > j THEN i ELSE j

RECURSIVE LtFrom(_, _, _)
LtFrom(a, b, i) ==
    IF i = 0 THEN FALSE
    ELSE IF Dig(a, i) # Dig(b, i) THEN Dig(a, i) < Dig(b, i)
    ELSE LtFrom(a, b, i - 1)

\* a < b, unsigned
Lt(a, b) == LtFrom(a, b, Max2(Len(a), Len(b)))

Eq(a, b) == \A i \in 1..Max2(Len(a), Len(b)) : Dig(a, i) = Dig(b, i)

RECURSIVE AddFrom(_, _, _, _, _)
AddFrom(a, b, c, i, w) ==
    IF i > w THEN <<>>
    ELSE LET s == Dig(a, i) + Dig(b, i) + c
         IN  <<s % Base>> \o AddFrom(a, b, s \div Base, i + 1, w)

\* (a + b) mod 2^(16w)
Add(a, b, w) == AddFrom(a, b, 0, 1, w)

RECURSIVE SubFrom(_, _, _, _, _)
SubFrom(a, b, c, i, w) ==
    IF i > w THEN <<>>
    ELSE LET s == Dig(a, i) - Dig(b, i) - c
         IN  <<s % Base>> \o SubFrom(a, b, IF s < 0 THEN 1 ELSE 0, i + 1, w)

\* (a - b) mod 2^(16w)
Sub(a, b, w) == SubFrom(a, b, 0, 1, w)

\* ~a
Not(a) == Tup([i \in 1..Len(a) |-> Base - 1 - a[i]])

RECURSIVE DigitAnd(_, _)
DigitAnd(p, q) ==
    IF p = 0 \/ q = 0 THEN 0
    ELSE ((p % 2) * (q % 2)) + (2 * DigitAnd(p \div 2, q \div 2))

\* a & b
And(a, b) == Tup([i \in 1..Len(a) |-> DigitAnd(a[i], Dig(b, i))])

\* a | b
Or(a, b) == Tup([i \in 1..Len(a) |-> a[i] + Dig(b, i) - DigitAnd(a[i], Dig(b, i))])

\* (a << k) mod 2^(16w), 0 <= k
Shl(a, k, w) ==
    LET q == k \div 16
        p == 2 ^ (k % 16)
    IN  Tup([i \in 1..w |-> ((Dig(a, i - q) * p) % Base) + ((Dig(a, i - q - 1) * p) \div Base)])

\* a >> k (logical), 0 <= k, in the width of a
Shr(a, k) ==
    LET q == k \div 16
        p == 2 ^ (k % 16)
        r == 2 ^ (16 - (k % 16))
    IN  Tup([i \in 1..Len(a) |-> (Dig(a, i + q) \div p) + ((Dig(a, i + q + 1) % p) * r)])

\* the product of two digits as <<low digit, high digit>>
DMul(p, q) ==
    LET t0 == p * (q % 256)
        t1 == p * (q \div 256)
        lo == t0 + ((t1 % 256) * 256)
    IN  <<lo % Base, (t1 \div 256) + (lo \div Base)>>

RECURSIVE RowFrom(_, _, _, _, _)
RowFrom(p, b, c, i, w) ==
    IF i > w THEN <<>>
    ELSE LET d == DMul(p, Dig(b, i))
             s == d[1] + c
         IN  <<s % Base>> \o RowFrom(p, b, d[2] + (s \div Base), i + 1, w)

RECURSIVE MulFrom(_, _, _, _)
MulFrom(a, b, i, w) ==
    IF i > w \/ i > Len(a) THEN Tup([j \in 1..w |-> 0])
    ELSE IF a[i] = 0 THEN MulFrom(a, b, i + 1, w)
    ELSE LET row == RowFrom(a[i], b, 0, 1, w - i + 1)
         IN  Add(Tup([j \in 1..w |-> IF j < i THEN 0 ELSE row[j - i + 1]]),
                 MulFrom(a, b, i + 1, w), w)

\* (a * b) mod 2^(16w)
Mul(a, b, w) == MulFrom(a, b, 1, w)

\* the largest digit d, built from bit on down, with d * b <= cur
RECURSIVE QDigit(_, _, _, _)
QDigit(cur, b, d, bit) ==
    IF bit = 0 THEN d
    ELSE IF Lt(cur, RowFrom(d + bit, b, 0, 1, Len(b) + 1))
         THEN QDigit(cur, b, d, bit \div 2)
         ELSE QDigit(cur, b, d + bit, bit \div 2)

\* long division in base 2^16 from digit i of a down, r the running remainder:
\* <<quotient digits 1..i, remainder>>
RECURSIVE DivFrom(_, _, _, _)
DivFrom(a, b, i, r) ==
    IF i = 0 THEN <<<<>>, r>>
    ELSE LET cur == <<a[i]>> \o r
             qd == QDigit(cur, b, 0, Base \div 2)
             rest == DivFrom(a, b, i - 1,
                             Sub(cur, RowFrom(qd, b, 0, 1, Len(b) + 1), Len(b)))
         IN  <<rest[1] \o <<qd>>, rest[2]>>

DivMod(a, b) == DivFrom(a, b, Len(a), Tup([i \in 1..Len(b) |-> 0]))

\* a / b and a % b, unsigned, b # 0, in the width of a
Div(a, b) == DivMod(a, b)[1]

Mod(a, b) == Cast(DivMod(a, b)[2], Len(a))

----------------------------------------------------------------------------
(* Decimal128: the two halves.                                             *)

Decimal128(high, low) == [high |-> high, low |-> low]

\* int64_t: the sign bit of the 4 digits
IsNeg64(h) == h[W64] >= Base \div 2

\* sign extension of an int64_t: 0 or -1
SignFill(v) == IF IsNeg64(v) THEN Tup([i \in 1..W64 |-> Base - 1]) ELSE Tup([i \in 1..W64 |-> 0])

\* Decimal128(int64_t value), of decimal.h
FromInt64(v) == Decimal128(SignFill(v), v)

\* the 128-bit two's complement pattern of a Decimal128, and back
Bits128(d) == d.low \o d.high

FromBits128(a) == Decimal128(SubSeq(a, W64 + 1, W128), SubSeq(a, 1, W64))

Zero128 == Decimal128(Lit(0, W64), Lit(0, W64))

kIntMask == Hex64(0, 0, \hFFFF, \hFFFF)

kCarryBit == Shl(Lit(1, W64), 32, W64)

----------------------------------------------------------------------------
(* Multiplication.                                                         *)

\* Decimal128::operator*=
OperatorMulAssign(left, right) ==
    Local([L0 \in {Shr(left.high, 32)}, L1 \in {And(left.high, kIntMask)},
           L2 \in {Shr(left.low, 32)}, L3 \in {And(left.low, kIntMask)},
           R0 \in {Shr(right.high, 32)}, R1 \in {And(right.high, kIntMask)},
           R2 \in {Shr(right.low, 32)}, R3 \in {And(right.low, kIntMask)} |->
    Local([product1 \in {Mul(L3, R3, W64)} |->
    Local([low1 \in {And(product1, kIntMask)}, sum1 \in {Shr(product1, 32)},
           product2 \in {Mul(L2, R3, W64)} |->
    Local([sum2 \in {Add(sum1, product2, W64)}, product3 \in {Mul(L3, R2, W64)} |->
    Local([sum3 \in {Add(sum2, product3, W64)} |->
    Local([low2 \in {Add(low1, Shl(sum3, 32, W64), W64)},
           high1 \in {IF Lt(sum3, product3) THEN kCarryBit ELSE Lit(0, W64)} |->
    Local([high2 \in {IF Lt(sum3, product3) THEN Add(high1, kCarryBit, W64) ELSE high1} |->
    Local([high3 \in {Add(high2, Shr(sum3, 32), W64)} |->
    Local([high4 \in {Add(high3,
                          Add(Add(Mul(L1, R3, W64), Mul(L2, R2, W64), W64),
                              Mul(L3, R1, W64), W64),
                          W64)} |->
    Local([high5 \in {Add(high4,
                          Shl(Add(Add(Add(Mul(L0, R3, W64), Mul(L1, R2, W64), W64),
                                      Mul(L2, R1, W64), W64),
                                  Mul(L3, R0, W64), W64), 32, W64),
                          W64)} |->
        Decimal128(high5, low2)])])])])])])])])])])

\* operator*(left, right): a copy of left, then *=
OperatorMul(left, right) == OperatorMulAssign(Decimal128(left.high, left.low), right)

----------------------------------------------------------------------------
(* Negation, comparison.                                                   *)

\* Negate without the carry into the high half
NegateWithoutCarry(d) ==
    Local([low \in {Add(Not(d.low), Lit(1, W64), W64)}, high \in {Not(d.high)} |->
        Decimal128(high, low)])

\* Decimal128::Negate
Negate(d) ==
    Local([low \in {Add(Not(d.low), Lit(1, W64), W64)}, high \in {Not(d.high)} |->
        Decimal128(IF IsZero(low) THEN Add(high, Lit(1, W64), W64) ELSE high, low)])

\* int64_t a < b
SignedLt64(a, b) ==
    IF IsNeg64(a) # IsNeg64(b) THEN IsNeg64(a) ELSE Lt(a, b)

\* operator<(left, right)
OperatorLt(left, right) ==
    \/ SignedLt64(left.high, right.high)
    \/ (left.high = right.high /\ Lt(left.low, right.low))

\* Decimal128::Abs
Abs(d) == IF OperatorLt(d, Zero128) THEN Negate(d) ELSE d

----------------------------------------------------------------------------
(* Shifts.                                                                 *)

\* int64_t v << k, 0 < k < 64.  On a negative v, and on a v whose bits are
\* shifted out, the language leaves this undefined; the builds emit the
\* shift instruction, and the bits shifted out are lost.
ShlInt64(v, k) == Shl(v, k, W64)

\* int64_t v >> k, 0 <= k < 64: the builds shift arithmetically
ShrInt64(v, k) == IF IsNeg64(v) THEN Not(Shr(Not(v), k)) ELSE Shr(v, k)

\* left >>= bits
OperatorShrAssign(left, bits) ==
    IF bits # 0
    THEN IF bits < 64
         THEN Local([low1 \in {Shr(left.low, bits)} |->
              Local([low2 \in {Or(low1, Cast(ShlInt64(left.high, 64 - bits), W64))} |->
                  Decimal128(Cast(Shr(Cast(left.high, W64), bits), W64), low2)])])
         ELSE IF bits < 128
         THEN Decimal128(SignFill(left.high), Cast(ShrInt64(left.high, bits - 64), W64))
         ELSE Local([high \in {SignFill(left.high)} |-> Decimal128(high, Cast(high, W64))])
    ELSE left

----------------------------------------------------------------------------
(* Division.  A C array uint32_t a[] is a sequence of limbs; a[k] of the   *)
(* source is At(a, k).                                                     *)

At(array, k) == array[k + 1]

Set(array, k, v) == Tup([array EXCEPT ![k + 1] = v])

Hi32(v) == Cast(Shr(v, 32), W32)

Lo32(v) == Cast(v, W32)

\* FillInArray with the test for zero left out: zero fills one limb
FillInArrayKeepsZero(value) ==
    Local([highbits \in {value.high}, lowbits \in {value.low} |->
    Local([was_negative \in {IsNeg64(highbits)} |->
    Local([low \in {IF was_negative THEN Add(Not(lowbits), Lit(1, W64), W64) ELSE lowbits} |->
    Local([high \in {IF was_negative
                     THEN (IF IsZero(low) THEN Add(Not(highbits), Lit(1, W64), W64)
                           ELSE Not(highbits))
                     ELSE highbits} |->
    Local([array \in {IF ~IsZero(high)
                      THEN (IF Lt(<<\hFFFF, \hFFFF>>, high)
                            THEN <<Hi32(high), Lo32(high), Hi32(low), Lo32(low)>>
                            ELSE <<Lo32(high), Hi32(low), Lo32(low)>>)
                      ELSE IF ~Lt(low, <<\hFFFF, \hFFFF>>)
                      THEN <<Hi32(low), Lo32(low)>>
                      ELSE <<Lo32(low)>>} |->
        [array |-> array, length |-> Len(array), was_negative |-> was_negative]])])])])])

\* FillInArray: the limbs written, the length returned, was_negative
FillInArray(value) ==
    Local([highbits \in {value.high}, lowbits \in {value.low} |->
    Local([was_negative \in {IsNeg64(highbits)} |->
    Local([low \in {IF was_negative THEN Add(Not(lowbits), Lit(1, W64), W64) ELSE lowbits} |->
    Local([high \in {IF was_negative
                     THEN (IF IsZero(low) THEN Add(Not(highbits), Lit(1, W64), W64)
                           ELSE Not(highbits))
                     ELSE highbits} |->
    Local([array \in {IF ~IsZero(high)
                      THEN (IF Lt(<<\hFFFF, \hFFFF>>, high)
                            THEN <<Hi32(high), Lo32(high), Hi32(low), Lo32(low)>>
                            ELSE <<Lo32(high), Hi32(low), Lo32(low)>>)
                      ELSE IF ~Lt(low, <<\hFFFF, \hFFFF>>)
                      THEN <<Hi32(low), Lo32(low)>>
                      ELSE IF IsZero(low) THEN <<>>
                      ELSE <<Lo32(low)>>} |->
        [array |-> array, length |-> Len(array), was_negative |-> was_negative]])])])])])

\* uint32_t v << bits and v >> bits.  A count of 32 is undefined: the build
\* either masks the count to 5 bits ("mask") or shifts every bit out ("zero").
Shl32(v, bits, u) ==
    IF bits < 32 THEN Shl(v, bits, W32)
    ELSE IF u = "mask" THEN Shl(v, bits % 32, W32) ELSE Lit(0, W32)

Shr32(v, bits, u) ==
    IF bits < 32 THEN Shr(v, bits)
    ELSE IF u = "mask" THEN Shr(v, bits % 32) ELSE Lit(0, W32)

\* ShiftArrayLeft
ShiftArrayLeft(array, length, bits, u) ==
    IF length > 0 /\ bits # 0
    THEN Tup([k \in 1..Len(array) |->
                IF k - 1 < length - 1
                THEN Or(Shl32(array[k], bits, u), Shr32(array[k + 1], 32 - bits, u))
                ELSE IF k - 1 = length - 1 THEN Shl32(array[k], bits, u)
                ELSE array[k]])
    ELSE array

\* ShiftArrayRight
ShiftArrayRight(array, length, bits, u) ==
    IF length > 0 /\ bits # 0
    THEN Tup([k \in 1..Len(array) |->
                IF k - 1 > 0 /\ k - 1 <= length - 1
                THEN Or(Shr32(array[k], bits, u), Shl32(array[k - 1], 32 - bits, u))
                ELSE IF k - 1 = 0 THEN Shr32(array[k], bits, u)
                ELSE array[k]])
    ELSE array

\* FixDivisionSigns: <<result, remainder>>
FixDivisionSigns(result, remainder, dividend_was_negative, divisor_was_negative) ==
    <<IF dividend_was_negative # divisor_was_negative THEN Negate(result) ELSE result,
      IF dividend_was_negative THEN Negate(remainder) ELSE remainder>>

\* (static_cast<uint64_t>(a) << 32) + b
Join32(a, b) == Add(Shl(Cast(a, W64), 32, W64), Cast(b, W64), W64)

\* BuildFromArray: the status and, when OK, the value written
BuildFromArray(array, length) ==
    CASE length = 0 -> [status |-> "OK", value |-> FromInt64(Lit(0, W64))]
      [] length = 1 -> [status |-> "OK", value |-> FromInt64(Cast(At(array, 0), W64))]
      [] length = 2 -> [status |-> "OK",
                        value |-> Decimal128(Lit(0, W64), Join32(At(array, 0), At(array, 1)))]
      [] length = 3 -> [status |-> "OK",
                        value |-> Decimal128(Cast(At(array, 0), W64),
                                             Join32(At(array, 1), At(array, 2)))]
      [] length = 4 -> [status |-> "OK",
                        value |-> Decimal128(Join32(At(array, 0), At(array, 1)),
                                             Join32(At(array, 2), At(array, 3)))]
      [] length = 5 ->
           IF ~IsZero(At(array, 0))
           THEN [status |-> "Invalid", msg |-> "Can't build Decimal128 with 5 ints."]
           ELSE [status |-> "OK",
                 value |-> Decimal128(Join32(At(array, 1), At(array, 2)),
                                      Join32(At(array, 3), At(array, 4)))]
      [] OTHER -> [status |-> "Invalid",
                   msg |-> "Unsupported length for building Decimal128"]

\* the loop of SingleDivide from index j on: <<result_array, r>>
RECURSIVE SingleDivideLoop(_, _, _, _, _, _)
SingleDivideLoop(dividend, dividend_length, divisor, j, result_array, r) ==
    IF j >= dividend_length THEN <<result_array, r>>
    ELSE Local([r1 \in {Add(Shl(r, 32, W64), Cast(At(dividend, j), W64), W64)} |->
         Local([dm \in {DivMod(r1, divisor)} |->
         Local([result1 \in {Append(result_array, Lo32(dm[1]))}, r2 \in {Cast(dm[2], W64)} |->
             SingleDivideLoop(dividend, dividend_length, divisor, j + 1, result1, r2)])])])

\* SingleDivide.  result0 and remainder0 are what the outputs held before.
SingleDivide(dividend, dividend_length, divisor, remainder0, dividend_was_negative, divisor_was_negative, result0) ==
    Local([loop \in {SingleDivideLoop(dividend, dividend_length, divisor, 0, <<>>,
                                      Lit(0, W64))} |->
    Local([built \in {BuildFromArray(loop[1], dividend_length)} |->
        IF built.status # "OK"
        THEN [status |-> built.status, msg |-> built.msg,
              result |-> result0, remainder |-> remainder0]
        ELSE Local([fixed \in {FixDivisionSigns(built.value, FromInt64(loop[2]),
                                                dividend_was_negative,
                                                divisor_was_negative)} |->
                 [status |-> "OK", msg |-> "", result |-> fixed[1],
                  remainder |-> fixed[2]]])])])

\* BitUtil::CountLeadingZeros(uint32_t), of bit-util.h
CountLeadingZeros(v) ==
    IF v[2] # 0 THEN 16 - Cardinality({k \in 0..15 : 2 ^ k <= v[2]})
    ELSE 32 - Cardinality({k \in 0..15 : 2 ^ k <= v[1]})

\* the while loop that lowers the guess (Divide, "catch all of the cases ...")
RECURSIVE CorrectGuess(_, _, _, _, _)
CorrectGuess(guess, rhat, d0, d1, next) ==
    IF Lt(Add(Shl(Cast(rhat, W64), 32, W64), Cast(next, W64), W64),
          Mul(Cast(d1, W64), Cast(guess, W64), W64))
    THEN Local([guess1 \in {Sub(guess, Lit(1, W32), W32)}, rhat1 \in {Add(rhat, d0, W32)} |->
             IF Lt(rhat1, d0) THEN guess1
             ELSE CorrectGuess(guess1, rhat1, d0, d1, next)])
    ELSE guess

\* the loop subtracting guess * divisor, from index i down: <<dividend_array, mult>>
RECURSIVE SubtractLoop(_, _, _, _, _, _)
SubtractLoop(dividend_array, divisor_array, guess, j, i, mult) ==
    IF i < 0 THEN <<dividend_array, mult>>
    ELSE Local([mult1 \in {Add(mult,
                               Mul(Cast(guess, W64), Cast(At(divisor_array, i), W64), W64),
                               W64)},
                prev \in {At(dividend_array, j + i + 1)} |->
         Local([cur \in {Sub(prev, Lo32(mult1), W32)}, mult2 \in {Shr(mult1, 32)} |->
         Local([array1 \in {Set(dividend_array, j + i + 1, cur)},
                mult3 \in {IF Lt(prev, cur) THEN Add(mult2, Lit(1, W64), W64) ELSE mult2} |->
             SubtractLoop(array1, divisor_array, guess, j, i - 1, mult3)])])])

\* the loop adding the divisor back, from index i down: <<dividend_array, carry>>
RECURSIVE AddBackLoop(_, _, _, _, _)
AddBackLoop(dividend_array, divisor_array, j, i, carry) ==
    IF i < 0 THEN <<dividend_array, carry>>
    ELSE Local([sum \in {Add(Add(Cast(At(divisor_array, i), W64),
                                 Cast(At(dividend_array, j + i + 1), W64), W64),
                             Cast(carry, W64), W64)} |->
         Local([array1 \in {Set(dividend_array, j + i + 1, Lo32(sum))},
                carry1 \in {Hi32(sum)} |->
             AddBackLoop(array1, divisor_array, j, i - 1, carry1)])])

\* one pass of "compute each digit in the result": <<dividend_array, guess>>
DivideDigit(dividend_array, divisor_array, divisor_length, j) ==
    Local([high_dividend \in {Join32(At(dividend_array, j), At(dividend_array, j + 1))} |->
    Local([guess0 \in {IF At(dividend_array, j) # At(divisor_array, 0)
                       THEN Lo32(Div(high_dividend, At(divisor_array, 0)))
                       ELSE <<\hFFFF, \hFFFF>>} |->
    Local([rhat \in {Lo32(Sub(high_dividend,
                              Mul(Cast(guess0, W64), Cast(At(divisor_array, 0), W64), W64),
                              W64))} |->
    Local([guess1 \in {CorrectGuess(guess0, rhat, At(divisor_array, 0),
                                    At(divisor_array, 1), At(dividend_array, j + 2))} |->
    Local([sub \in {SubtractLoop(dividend_array, divisor_array, guess1, j,
                                 divisor_length - 1, Lit(0, W64))} |->
    Local([prev \in {At(sub[1], j)} |->
    Local([top \in {Sub(prev, Lo32(sub[2]), W32)} |->
    Local([subtracted \in {Set(sub[1], j, top)} |->
        IF Lt(prev, top)
        THEN Local([back \in {AddBackLoop(subtracted, divisor_array, j, divisor_length - 1,
                                          Lit(0, W32))} |->
                 <<Set(back[1], j, Add(At(back[1], j), back[2], W32)),
                   Sub(guess1, Lit(1, W32), W32)>>])
        ELSE <<subtracted, guess1>>])])])])])])])])

\* the loop over the digits of the result, from j on: <<dividend_array, result_array>>
RECURSIVE DivideLoop(_, _, _, _, _, _)
DivideLoop(dividend_array, divisor_array, divisor_length, result_length, j, result_array) ==
    IF j >= result_length THEN <<dividend_array, result_array>>
    ELSE Local([step \in {DivideDigit(dividend_array, divisor_array, divisor_length, j)} |->
         Local([result1 \in {Append(result_array, step[2])} |->
             DivideLoop(step[1], divisor_array, divisor_length, result_length, j + 1,
                        result1)])])

\* Decimal128::Divide.  result0 and remainder0 are what *result and *remainder
\* held before the call; u is the build's reading of a shift by 32.
Divide(dividend, divisor, result0, remainder0, u) ==
    Local([fill1 \in {FillInArray(dividend)}, fill2 \in {FillInArray(divisor)} |->
    Local([dividend_array \in {<<Lit(0, W32)>> \o fill1.array},
           dividend_length \in {fill1.length + 1},
           divisor_array \in {fill2.array},
           divisor_length \in {fill2.length},
           dividend_was_negative \in {fill1.was_negative},
           divisor_was_negative \in {fill2.was_negative} |->
        IF dividend_length <= divisor_length
        THEN [status |-> "OK", msg |-> "", result |-> FromInt64(Lit(0, W64)),
              remainder |-> dividend]
        ELSE IF divisor_length = 0
        THEN [status |-> "Invalid", msg |-> "Division by 0 in Decimal128",
              result |-> result0, remainder |-> remainder0]
        ELSE IF divisor_length = 1
        THEN SingleDivide(dividend_array, dividend_length, At(divisor_array, 0), remainder0,
                          dividend_was_negative, divisor_was_negative, result0)
        ELSE
    Local([result_length \in {dividend_length - divisor_length},
           normalize_bits \in {CountLeadingZeros(At(divisor_array, 0))} |->
    Local([divisor_shifted \in {ShiftArrayLeft(divisor_array, divisor_length,
                                               normalize_bits, u)},
           dividend_shifted \in {ShiftArrayLeft(dividend_array, dividend_length,
                                                normalize_bits, u)} |->
    Local([loop \in {DivideLoop(dividend_shifted, divisor_shifted, divisor_length,
                                result_length, 0, <<>>)} |->
    Local([denormalized \in {ShiftArrayRight(loop[1], dividend_length, normalize_bits, u)},
           built1 \in {BuildFromArray(loop[2], result_length)} |->
        IF built1.status # "OK"
        THEN [status |-> built1.status, msg |-> built1.msg,
              result |-> result0, remainder |-> remainder0]
        ELSE
    Local([built2 \in {BuildFromArray(denormalized, dividend_length)} |->
        IF built2.status # "OK"
        THEN [status |-> built2.status, msg |-> built2.msg,
              result |-> built1.value, remainder |-> remainder0]
        ELSE
    Local([fixed \in {FixDivisionSigns(built1.value, built2.value,
                                       dividend_was_negative, divisor_was_negative)} |->
        [status |-> "OK", msg |-> "", result |-> fixed[1],
         remainder |-> fixed[2]]])])])])])])])])

\* the count Divide shifts its arrays by: normalize_bits on the path that
\* normalizes, 0 on the paths that return before
DivideShiftCount(dividend, divisor) ==
    Local([fill1 \in {FillInArray(dividend)}, fill2 \in {FillInArray(divisor)} |->
        IF fill1.length + 1 <= fill2.length \/ fill2.length <= 1 THEN 0
        ELSE CountLeadingZeros(At(fill2.array, 0))])

----------------------------------------------------------------------------
(* Strings.  A character is a one-character string; s[k] of the source is  *)
(* s[k + 1] here; an iterator is a position 1 .. Len(s) + 1 and s.end() is *)
(* Len(s) + 1.                                                             *)
DigitChars == <<"0", "1", "2", "3", "4", "5", "6", "7", "8", "9">>

\* isdigit, std::isdigit
isdigit(value) == \E d \in 1..10 : DigitChars[d] = value

\* the digit a digit character denotes
DigitOf(value) == (CHOOSE d \in 1..10 : DigitChars[d] = value) - 1

Min2(i, j) == IF i < j THEN i ELSE j

\* std::find_if_not(first, s.end(), pred); pred[i] is the predicate on s[i]
FindIfNot(s, first, pred) ==
    LET stops == {i \in first..Len(s) : ~pred[i]}
    IN  IF stops = {} THEN Len(s) + 1 ELSE CHOOSE i \in stops : \A k \in stops : i <= k

\* the lambda of "skip leading zeros"
IsZeroChar(value) == value = "0"

\* a * m from digit i on, for a small m, carry c
RECURSIVE MulSmallFrom(_, _, _, _)
MulSmallFrom(a, m, c, i) ==
    IF i > Len(a) THEN <<>>
    ELSE LET t == (a[i] * m) + c
         IN  <<t % Base>> \o MulSmallFrom(a, m, t \div Base, i + 1)

\* a * m in the width of a, for 0 <= m < 2^15
MulSmall(a, m) == MulSmallFrom(a, m, 0, 1)

\* a \div m from digit i down, for a small m, remainder r: <<quotient, remainder>>
RECURSIVE DivSmallFrom(_, _, _, _)
DivSmallFrom(a, m, r, i) ==
    IF i < 1 THEN <<<<>>, r>>
    ELSE LET t == (r * Base) + a[i]
             rest == DivSmallFrom(a, m, t % m, i - 1)
         IN  <<Append(rest[1], t \div m), rest[2]>>

\* <<a \div m, a % m>> for 0 < m < 2^15
DivModSmall(a, m) == DivSmallFrom(a, m, 0, Len(a))

\* std::stoll of a string of at most 18 digits, from position i on
RECURSIVE stollFrom(_, _, _)
stollFrom(s, i, acc) ==
    IF i > Len(s) THEN acc
    ELSE Local([acc1 \in {Add(MulSmall(acc, 10), Lit(DigitOf(s[i]), W64), W64)} |->
             stollFrom(s, i + 1, acc1)])

stoll(s) == stollFrom(s, 1, Lit(0, W64))

\* the number a string of digits denotes (fewer than 10 digits)
RECURSIVE NatOf(_)
NatOf(s) ==
    IF s = <<>> THEN 0 ELSE (NatOf(SubSeq(s, 1, Len(s) - 1)) * 10) + DigitOf(s[Len(s)])

\* std::stol of an optional sign and digits (fewer than 10): it throws
\* std::invalid_argument when no digit follows
stol(s) ==
    LET signed == s # <<>> /\ (s[1] = "+" \/ s[1] = "-")
        digits == IF signed THEN Tail(s) ELSE s
    IN  IF digits = <<>> THEN [thrown |-> "std::invalid_argument", value |-> 0]
        ELSE [thrown |-> "",
              value |-> IF signed /\ s[1] = "-" THEN 0 - NatOf(digits) ELSE NatOf(digits)]

kInt64DecimalDigits == 18

\* kPowersOfTen[k], an int64_t
RECURSIVE kPowersOfTen(_)
kPowersOfTen(k) ==
    IF k = 0 THEN Lit(1, W64)
    ELSE Local([lower \in {kPowersOfTen(k - 1)} |-> MulSmall(lower, 10)])

\* left += right
OperatorAddAssign(left, right) ==
    Local([sum \in {Add(left.low, right.low, W64)},
           high1 \in {Add(left.high, right.high, W64)} |->
        Decimal128(IF Lt(sum, left.low) THEN Add(high1, Lit(1, W64), W64) ELSE high1, sum)])

\* left -= right without the borrow out of the low half
SubAssignWithoutBorrow(left, right) ==
    Decimal128(Sub(left.high, right.high, W64), Sub(left.low, right.low, W64))

\* left -= right.  The halves' arithmetic wraps: high_bits_ is an int64_t,
\* whose overflow the builds compute in two's complement.
OperatorSubAssign(left, right) ==
    Local([diff \in {Sub(left.low, right.low, W64)},
           high1 \in {Sub(left.high, right.high, W64)} |->
        Decimal128(IF Lt(left.low, diff) THEN Sub(high1, Lit(1, W64), W64) ELSE high1, diff)])

\* operator+(left, right): a copy of left, then +=
OperatorAdd(left, right) == OperatorAddAssign(Decimal128(left.high, left.low), right)

\* operator-(left, right): a copy of left, then -=
OperatorSub(left, right) == OperatorSubAssign(Decimal128(left.high, left.low), right)

\* the loop of StringToInteger, from posn on
RECURSIVE StringToIntegerLoop(_, _, _)
StringToIntegerLoop(s, posn, out0) ==
    IF posn >= Len(s) THEN out0
    ELSE Local([group \in {Min2(kInt64DecimalDigits, Len(s) - posn)} |->
         Local([chunk \in {stoll(SubSeq(s, posn + 1, posn + group))},
                multiple \in {kPowersOfTen(group)} |->
         Local([out1 \in {OperatorMulAssign(out0, FromInt64(multiple))} |->
         Local([out2 \in {OperatorAddAssign(out1, FromInt64(chunk))} |->
             StringToIntegerLoop(s, posn + group, out2)])])])])

StringToInteger(s, out0) == StringToIntegerLoop(s, 0, out0)

\* what the char read at s.end() is, when the read does not trap
NulChar == "NUL"

\* the builds' readings of *charp at s.end(): the terminating NUL, or a trap
EndReadUB == {"nul", "trap"}

\* a return of Status::Invalid(msg) with the outputs as they are then
Invalid(msg, outputs) ==
    [status |-> "Invalid", msg |-> msg, out |-> outputs.out,
     precision |-> outputs.precision, scale |-> outputs.scale]

\* Decimal128::FromString(s, &out, &precision, scale).  prior is what the
\* outputs held before; scale_requested is scale != NULLPTR; u is the build's
\* reading of *charp at s.end().
FromString(s, prior, scale_requested, u) ==
    IF s = <<>> THEN Invalid("Empty string cannot be converted to decimal", prior)
    ELSE
    Local([end \in {Len(s) + 1}, first_char \in {s[1]},
           is_zero \in {[i \in 1..Len(s) |-> IsZeroChar(s[i])]},
           is_digit \in {[i \in 1..Len(s) |-> isdigit(s[i])]} |->
    Local([signed \in {first_char = "+" \/ first_char = "-"} |->
    Local([is_negative \in {signed /\ first_char = "-"},
           numeric_string_start \in {IF signed THEN 2 ELSE 1} |->
        IF numeric_string_start = end
        THEN Invalid("Single character is not a valid decimal value", prior)
        ELSE
    Local([whole_part_start \in {FindIfNot(s, numeric_string_start, is_zero)} |->
        IF whole_part_start = end
        THEN [status |-> "OK", msg |-> "", out |-> Zero128,
              precision |-> whole_part_start - numeric_string_start,
              scale |-> IF scale_requested THEN 0 ELSE prior.scale]
        ELSE
    Local([whole_part_end \in {FindIfNot(s, whole_part_start, is_digit)} |->
    Local([whole_part \in {SubSeq(s, whole_part_start, whole_part_end - 1)},
           has_point \in {whole_part_end # end /\ s[whole_part_end] = "."} |->
    Local([fractional_part_start \in {IF has_point THEN whole_part_end + 1
                                      ELSE whole_part_end} |->
        IF has_point /\ fractional_part_start = end
        THEN Invalid("Decimal point must be followed by at least one base ten digit", prior)
        ELSE IF has_point /\ ~isdigit(s[fractional_part_start])
        THEN Invalid("Decimal point must be followed by a base ten digit", prior)
        ELSE IF ~has_point /\ whole_part_end # end
        THEN Invalid("Expected base ten digit or decimal point", prior)
        ELSE
    Local([fractional_part_end \in {IF fractional_part_start # end
                                    THEN FindIfNot(s, fractional_part_start, is_digit)
                                    ELSE fractional_part_start} |->
        IF fractional_part_end # end /\ s[fractional_part_end] # "E"
           /\ s[fractional_part_end] # "e"
        THEN Invalid("Found non base ten digit character before the end of the string", prior)
        ELSE
    Local([fractional_part \in {SubSeq(s, fractional_part_start, fractional_part_end - 1)} |->
    Local([precision \in {Len(whole_part) + Len(fractional_part)} |->
    Local([digits \in {StringToInteger(whole_part \o fractional_part, Zero128)} |->
    Local([parsed \in {IF is_negative THEN Negate(digits) ELSE digits} |->
        IF fractional_part_end = end
        THEN [status |-> "OK", msg |-> "", out |-> parsed, precision |-> precision,
              scale |-> IF scale_requested THEN Len(fractional_part) ELSE prior.scale]
        ELSE
    Local([digit_start \in {fractional_part_end + 1} |->
        IF digit_start = end /\ u = "trap"
        THEN [status |-> "Aborted", msg |-> "read at s.end()", out |-> prior.out,
              precision |-> precision, scale |-> prior.scale]
        ELSE
    Local([value \in {IF digit_start = end THEN NulChar ELSE s[digit_start]} |->
    Local([starts_with_plus_or_minus \in {value = "+" \/ value = "-"} |->
    Local([exponent_end \in {FindIfNot(s, digit_start + (IF starts_with_plus_or_minus
                                                          THEN 1 ELSE 0), is_digit)} |->
        IF exponent_end # end
        THEN Invalid("Found non decimal digit exponent value",
                     [prior EXCEPT !.precision = precision])
        ELSE IF ~scale_requested
        THEN [status |-> "OK", msg |-> "", out |-> parsed, precision |-> precision,
              scale |-> prior.scale]
        ELSE
    Local([adjusted_exponent \in {stol(SubSeq(s, digit_start, end - 1))},
           len \in {Len(whole_part) + Len(fractional_part)} |->
        IF adjusted_exponent.thrown # ""
        THEN [status |-> "Thrown", msg |-> adjusted_exponent.thrown, out |-> prior.out,
              precision |-> precision, scale |-> prior.scale]
        ELSE [status |-> "OK", msg |-> "", out |-> parsed, precision |-> precision,
              scale |-> (0 - adjusted_exponent.value) + len - 1]
    ])])])])])])])])])])])])])])])])])

\* whether FromString(s) reads *charp at s.end()
FromStringReadsEnd(s) == FromString(s, [out |-> Zero128, precision |-> 0, scale |-> 0], FALSE, "trap").status = "Aborted"

----------------------------------------------------------------------------
(* Printing.                                                               *)

\* kTenTo36, kTenTo18
kTenTo36 == Decimal128(Hex64(\h00C0, \h97CE, \h7BC9, \h0715), Hex64(\hB34B, \h9F10, 0, 0))

kTenTo18 == FromInt64(Hex64(\h0DE0, \hB6B3, \hA764, 0))

\* left != right
OperatorNe(left, right) == left.high # right.high \/ left.low # right.low

\* static_cast<int64_t>(value)
ToInt64(value) == value.low

\* DCHECK(high_bits_ == 0 || high_bits_ == -1) of operator int64_t
ToInt64Check(value) == value.high = Lit(0, W64) \/ value.high = Not(Lit(0, W64))

\* the decimal digits of an unsigned a before the digits acc
RECURSIVE DecimalFrom(_, _)
DecimalFrom(a, acc) ==
    Local([qr \in {DivModSmall(a, 10)} |->
    Local([acc1 \in {<<DigitChars[qr[2] + 1]>> \o acc} |->
        IF IsZero(qr[1]) THEN acc1 ELSE DecimalFrom(qr[1], acc1)])])

\* one copy fewer: a padding that is one character short
RepeatOneLess(c, k) == [i \in 1..(k - 1) |-> c]

\* n copies of the character c
Repeat(c, k) == [i \in 1..k |-> c]

\* buf << std::setw(width) << std::setfill('0') << v, for an int64_t v
\* (width 0: no setw)
StreamInt64(v, width) ==
    Local([text \in {IF IsNeg64(v)
                     THEN <<"-">> \o DecimalFrom(Add(Not(v), Lit(1, W64), W64), <<>>)
                     ELSE DecimalFrom(v, <<>>)} |->
        IF Len(text) < width THEN Repeat("0", width - Len(text)) \o text ELSE text])

\* Decimal128::ToIntegerString
ToIntegerString(value) ==
    Local([first \in {Divide(value, kTenTo36, Zero128, Zero128, "none")} |->
    Local([need_fill1 \in {OperatorNe(first.result, Zero128)} |->
    Local([buf1 \in {IF need_fill1 THEN StreamInt64(ToInt64(first.result), 0) ELSE <<>>},
           remainder \in {IF need_fill1 THEN Abs(first.remainder) ELSE first.remainder} |->
    Local([second \in {Divide(remainder, kTenTo18, first.result, Zero128, "none")} |->
    Local([top \in {second.result} |->
    Local([need_fill2 \in {need_fill1 \/ OperatorNe(top, Zero128)} |->
    Local([buf2 \in {IF need_fill2
                     THEN buf1 \o StreamInt64(ToInt64(top), IF need_fill1 THEN 18 ELSE 0)
                     ELSE buf1},
           tail \in {IF need_fill2 /\ ~need_fill1 THEN Abs(second.remainder)
                     ELSE second.remainder} |->
        buf2 \o StreamInt64(ToInt64(tail), IF need_fill2 THEN 18 ELSE 0)])])])])])])])

\* the decimal digits of k >= 0
RECURSIVE NatDigits(_)
NatDigits(k) ==
    IF k < 10 THEN <<DigitChars[k + 1]>>
    ELSE NatDigits(k \div 10) \o <<DigitChars[(k % 10) + 1]>>

\* buf << std::showpos << k, for an int32_t k
ShowPos(k) == IF k >= 0 THEN <<"+">> \o NatDigits(k) ELSE <<"-">> \o NatDigits(0 - k)

\* s.substr(pos, count) and s.substr(pos, std::string::npos)
Substr(s, pos, count) == SubSeq(s, pos + 1, Min2(Len(s), pos + count))

SubstrFrom(s, pos) == SubSeq(s, pos + 1, Len(s))

\* ToStringNegativeScale
ToStringNegativeScale(s, adjusted_exponent, is_negative) ==
    LET offset == IF is_negative THEN 2 ELSE 1
    IN  SubSeq(s, 1, offset) \o <<".">> \o SubstrFrom(s, offset) \o <<"E">>
        \o ShowPos(adjusted_exponent)

\* Decimal128::ToString(scale)
ToString(value, scale) ==
    Local([s \in {ToIntegerString(value)} |->
        IF scale = 0 THEN s
        ELSE
    Local([is_negative \in {OperatorLt(value, Zero128)}, len \in {Len(s)} |->
    Local([is_negative_offset \in {IF is_negative THEN 1 ELSE 0} |->
    Local([adjusted_exponent \in {(0 - scale) + (len - 1 - is_negative_offset)} |->
        IF scale < 0 \/ adjusted_exponent < 0 - 6
        THEN ToStringNegativeScale(s, adjusted_exponent, is_negative)
        ELSE IF is_negative
        THEN IF len - 1 > scale
             THEN Substr(s, 0, len - scale) \o <<".">> \o Substr(s, len - scale, scale)
             ELSE IF len - 1 = scale
             THEN <<"-", "0", ".">> \o SubstrFrom(s, 1)
             ELSE <<"-", "0", ".">> \o Repeat("0", scale - len + 1) \o SubstrFrom(s, 1)
        ELSE IF len > scale
        THEN Substr(s, 0, len - scale) \o <<".">> \o Substr(s, len - scale, scale)
        ELSE IF len = scale
        THEN <<"0", ".">> \o s
        ELSE <<"0", ".">> \o Repeat("0", scale - len) \o s])])])])

----------------------------------------------------------------------------
(* Rescaling.                                                              *)

\* Decimal128(const std::string&): FromString with no precision and no scale
FromStringConstructor(s) ==
    FromString(s, [out |-> Zero128, precision |-> 0, scale |-> 0], FALSE, "nul").out

\* ScaleMultipliers[k] is ScaleMultipliers[k + 1] here
ScaleMultipliers ==
    Tup([i \in 1..39 |-> IF i - 1 <= 18 THEN FromInt64(kPowersOfTen(i - 1))
                         ELSE FromStringConstructor(<<"1">> \o Repeat("0", i - 1))])

\* RescaleWouldCauseDataLoss: what it returns and what it leaves in *result
RescaleWouldCauseDataLoss(value, delta_scale, abs_delta_scale, result0) ==
    Local([multiplier \in {ScaleMultipliers[abs_delta_scale + 1]} |->
        IF delta_scale < 0
        THEN Local([divided \in {Divide(value, multiplier, result0, Zero128, "none")} |->
                 [loss |-> OperatorNe(divided.remainder, Zero128),
                  result |-> divided.result]])
        ELSE Local([product \in {OperatorMul(value, multiplier)} |->
                 [loss |-> OperatorLt(product, value), result |-> product]])])

\* Decimal128::Rescale(original_scale, new_scale, &out)
Rescale(value, original_scale, new_scale, out0) ==
    Local([delta_scale \in {new_scale - original_scale} |->
    Local([abs_delta_scale \in {IF delta_scale < 0 THEN 0 - delta_scale ELSE delta_scale} |->
    Local([checked \in {RescaleWouldCauseDataLoss(value, delta_scale, abs_delta_scale,
                                                  out0)} |->
        IF checked.loss
        THEN [status |-> "Invalid",
              msg |-> <<"Rescaling decimal value ", ToString(value, original_scale),
                        " from original scale of ", original_scale, " to new scale of ",
                        new_scale, " would cause data loss">>,
              out |-> checked.result]
        ELSE [status |-> "OK", msg |-> <<>>, out |-> checked.result]])])])

----------------------------------------------------------------------------
(* The calls.  A call is made once, on operands drawn at the start.        *)

NoArgs == [a |-> 0, b |-> 0]

NoOut == [status |-> "none"]

\* 32-bit limbs to draw operands from: 0, 2^32 - 1, 1, 2^31, ...
LimbSeq ==
    << <<0, 0>>, <<\hFFFF, \hFFFF>>, <<1, 0>>, <<0, \h8000>>, <<\hFFFF, 0>>, <<0, 1>> >>

NumLimbs == 3

Limbs == {LimbSeq[i] : i \in 1..NumLimbs}

\* the value with 32-bit limbs l0 (most significant) .. l3
OfLimbs(l0, l1, l2, l3) == Decimal128(l1 \o l0, l3 \o l2)

LimbValues == {OfLimbs(l0, l1, l2, l3) : l0 \in Limbs, l1 \in Limbs, l2 \in Limbs, l3 \in Limbs}

InitMul ==
    /\ pc = "start"
    /\ x \in LimbValues
    /\ y \in LimbValues
    /\ n = NoArgs
    /\ str = <<>>
    /\ ub = "none"
    /\ out = NoOut

\* x *= y
CallMulAssign ==
    /\ pc = "start"
    /\ pc' = "operator*="
    /\ x' = OperatorMulAssign(x, y)
    /\ out' = [status |-> "OK", left |-> x]
    /\ UNCHANGED <<y, n, str, ub>>

\* x * y
CallMul ==
    /\ pc = "start"
    /\ pc' = "operator*"
    /\ out' = [status |-> "OK", value |-> OperatorMul(x, y)]
    /\ UNCHANGED <<x, y, n, str, ub>>

NextMul == CallMulAssign \/ CallMul

SpecMul == InitMul /\ [][NextMul]_vars

\* what an output object holds before a call writes it
Prior128 == Decimal128(Hex64(\h0BAD, \h0BAD, \h0BAD, \h0BAD), Hex64(\h0BAD, \h0BAD, \h0BAD, \h0BAD))

\* the builds' readings of a shift of a uint32_t by 32
ShiftUB == {"mask", "zero"}

NumDividendLimbs == 2

NumDivisorLimbs == 2

\* a small int as a Decimal128
Small(k) == FromInt64(Lit(k, W64))

\* v * 10^k (mod 2^128), by k multiplications by ten
RECURSIVE TimesTen(_, _)
TimesTen(a, k) ==
    IF k = 0 THEN a
    ELSE Local([a1 \in {MulSmall(a, 10)} |-> TimesTen(a1, k - 1)])

ScaledBy(v, k) == FromBits128(TimesTen(Bits128(v), k))

\* 2^64 - 1
AllOnes64 == OfLimbs(LimbSeq[1], LimbSeq[1], LimbSeq[2], LimbSeq[2])

Dividends ==
    LET DividendLimbs == {LimbSeq[i] : i \in 1..NumDividendLimbs}
    IN  {OfLimbs(l0, l1, l2, l3) : l0 \in DividendLimbs, l1 \in DividendLimbs,
                                   l2 \in DividendLimbs, l3 \in DividendLimbs}
        \cup {Small(7), Negate(Small(7)), Small(1000),
              OfLimbs(LimbSeq[1], LimbSeq[1], LimbSeq[3], LimbSeq[1]),
              OfLimbs(LimbSeq[1], LimbSeq[2], LimbSeq[3], LimbSeq[1]),
              Negate(OfLimbs(LimbSeq[1], LimbSeq[2], LimbSeq[3], LimbSeq[1])),
              OfLimbs(LimbSeq[4], LimbSeq[1], LimbSeq[1], LimbSeq[1]),
              OfLimbs(LimbSeq[3], LimbSeq[4], LimbSeq[5], LimbSeq[6]),
              ScaledBy(Small(1), 30), Negate(ScaledBy(Small(12345), 25)),
              ScaledBy(AllOnes64, 14)}

Divisors ==
    LET DivisorLimbs == {LimbSeq[i] : i \in 1..NumDivisorLimbs}
    IN  {OfLimbs(l0, l1, l2, l3) : l0 \in DivisorLimbs, l1 \in DivisorLimbs,
                                   l2 \in DivisorLimbs, l3 \in DivisorLimbs}
        \cup {Small(1), Small(3), Negate(Small(3)), Small(10), Small(2147483647),
              OfLimbs(LimbSeq[1], LimbSeq[1], LimbSeq[3], LimbSeq[1]),
              OfLimbs(LimbSeq[1], LimbSeq[4], LimbSeq[3], LimbSeq[2]),
              OfLimbs(LimbSeq[4], LimbSeq[1], LimbSeq[2], LimbSeq[3]),
              ScaledBy(Small(1), 14), kTenTo18}

InitDivide ==
    /\ pc = "start"
    /\ x \in Dividends
    /\ y \in Divisors
    /\ n = NoArgs
    /\ str = <<>>
    /\ ub = "none"
    /\ out = [status |-> "none", result |-> Prior128, remainder |-> Prior128]

\* x.Divide(y, &result, &remainder)
CallDivide ==
    /\ pc = "start"
    /\ pc' = "Divide"
    /\ \E u \in (IF DivideShiftCount(x, y) = 32 THEN ShiftUB ELSE {"none"}) :
          /\ ub' = u
          /\ out' = Divide(x, y, out.result, out.remainder, u)
    /\ UNCHANGED <<x, y, n, str>>

NextDivide == CallDivide

SpecDivide == InitDivide /\ [][NextDivide]_vars

\* DCHECK_LE(abs_delta_scale, 38)
MaxDeltaScale == 38

MaxOriginalScale == 1

\* 0xE0000000FFFFFFFF
WideLimbs == OfLimbs(LimbSeq[1], LimbSeq[1], <<0, \hE000>>, LimbSeq[2])

RescaleValues ==
    {Small(0), Small(1), Negate(Small(1)), Small(5), Small(120), Negate(Small(120)),
     Small(12345), ScaledBy(Small(1), 18), ScaledBy(Small(7), 20),
     Negate(ScaledBy(Small(7), 20)), ScaledBy(AllOnes64, 14), WideLimbs,
     ScaledBy(Small(17), 37), Negate(ScaledBy(Small(17), 37)),
     OfLimbs(LimbSeq[4], LimbSeq[1], LimbSeq[1], LimbSeq[1])}

InitRescale ==
    /\ pc = "start"
    /\ x \in RescaleValues
    /\ y = Zero128
    /\ \E original_scale \in 0..MaxOriginalScale :
       \E delta \in ((0 - MaxDeltaScale)..MaxDeltaScale) \ {0} :
          n = [original_scale |-> original_scale, new_scale |-> original_scale + delta]
    /\ str = <<>>
    /\ ub = "none"
    /\ out = [status |-> "none", out |-> Prior128]

\* x.Rescale(original_scale, new_scale, &out)
CallRescale ==
    /\ pc = "start"
    /\ pc' = "Rescale"
    /\ out' = Rescale(x, n.original_scale, n.new_scale, out.out)
    /\ UNCHANGED <<x, y, n, str, ub>>

NextRescale == CallRescale

SpecRescale == InitRescale /\ [][NextRescale]_vars

\* the characters strings are drawn from
Alphabet == {"0", "1", ".", "E", "e", "+", "-", "x"}

MaxLen == 4

\* the strings over Alphabet of length k
RECURSIVE StringsOfLen(_)
StringsOfLen(k) ==
    IF k = 0 THEN {<<>>}
    ELSE {Append(s, c) : s \in StringsOfLen(k - 1), c \in Alphabet}

\* a string of digits, given as numbers
Chars(ds) == [i \in 1..Len(ds) |-> DigitChars[ds[i] + 1]]

Nines(k) == Repeat("9", k)

LongStrings ==
    {Nines(38), <<"-">> \o Nines(38), <<"0", ".">> \o Nines(38),
     Chars(<<1, 2, 3, 4, 5, 6, 7, 8, 9, 0, 1, 2, 3, 4, 5, 6, 7, 8, 9>>),
     Chars(<<1, 2, 3, 4, 5, 6, 7, 8, 9, 0, 1, 2, 3, 4, 5, 6, 7, 8>>) \o <<".">>
         \o Chars(<<9, 8, 7, 6, 5, 4, 3, 2, 1, 0, 9, 8, 7, 6, 5, 4, 3, 2, 1, 0>>),
     <<"1", "2", ".", "5", "E", "3">>, <<"-", "1", "2", ".", "5", "e", "-", "3">>,
     <<"-", "1", ".", "5", "E", "+", "1", "0">>, <<"0", "0", "1", "2", ".", "5", "0">>,
     <<"+", "0", ".", "0", "0", "1", "2", "E", "-", "2">>, <<"1", "2", "5", "E", "3">>,
     <<"-", "1", "2", ".", "5", "E">>, <<"1", "2", ".", "5", "E", "+">>}

Strings == UNION {StringsOfLen(k) : k \in 0..MaxLen} \cup LongStrings

\* what the outputs of FromString hold before the call
PriorOutputs == [out |-> Prior128, precision |-> 0 - 1, scale |-> 0 - 1]

InitFromString ==
    /\ pc = "start"
    /\ x = Zero128
    /\ y = Zero128
    /\ n \in [scale_requested : BOOLEAN]
    /\ str \in Strings
    /\ ub = "none"
    /\ out = [status |-> "none", msg |-> "", out |-> PriorOutputs.out,
              precision |-> PriorOutputs.precision, scale |-> PriorOutputs.scale]

\* Decimal128::FromString(str, &out, &precision, scale)
CallFromString ==
    /\ pc = "start"
    /\ pc' = "FromString"
    /\ \E u \in (IF FromStringReadsEnd(str) THEN EndReadUB ELSE {"none"}) :
          /\ ub' = u
          /\ out' = FromString(str, PriorOutputs, n.scale_requested, u)
    /\ UNCHANGED <<x, y, n, str>>

NextFromString == CallFromString

SpecFromString == InitFromString /\ [][NextFromString]_vars

InitRoundTrip ==
    /\ pc = "start"
    /\ x = Zero128
    /\ y = Zero128
    /\ n = [scale_requested |-> TRUE]
    /\ str \in Strings
    /\ ub = "none"
    /\ out = [status |-> "none", msg |-> "", out |-> PriorOutputs.out,
              precision |-> PriorOutputs.precision, scale |-> PriorOutputs.scale]

\* Decimal128::FromString(str, &value, &precision, &scale), then
\* value.ToString(scale)
CallToStringOfParsed ==
    /\ pc = "FromString"
    /\ out.status = "OK"
    /\ pc' = "ToString"
    /\ x' = out.out
    /\ out' = [status |-> "OK", scale |-> out.scale, text |-> ToString(out.out, out.scale)]
    /\ UNCHANGED <<y, n, str, ub>>

NextRoundTrip == CallFromString \/ CallToStringOfParsed

SpecRoundTrip == InitRoundTrip /\ [][NextRoundTrip]_vars

MaxScale == 10

ToStringValues ==
    {Small(0), Small(1), Negate(Small(1)), Small(7), Small(10), Small(120),
     Negate(Small(120)), Small(12345), Negate(Small(12345)), ScaledBy(Small(1), 18),
     ScaledBy(Small(123), 20), Negate(ScaledBy(Small(123), 36)),
     OfLimbs(LimbSeq[4], LimbSeq[1], LimbSeq[1], LimbSeq[1])}

InitToString ==
    /\ pc = "start"
    /\ x \in ToStringValues
    /\ y = Zero128
    /\ n \in [scale : (0 - MaxScale)..MaxScale]
    /\ str = <<>>
    /\ ub = "none"
    /\ out = [status |-> "none"]

\* x.ToString(scale)
CallToString ==
    /\ pc = "start"
    /\ pc' = "ToString"
    /\ out' = [status |-> "OK", scale |-> n.scale, text |-> ToString(x, n.scale)]
    /\ UNCHANGED <<x, y, n, str, ub>>

NextToString == CallToString

SpecToString == InitToString /\ [][NextToString]_vars

\* (2^32 - 1) * 10^18 + 683622126177222656 = 4294967295683622126177222656
AboveTenTo18 == Decimal128(Hex64(0, 0, \h0DE0, \hB6B3), Hex64(\hA300, 0, 0, 0))

IntegerStringValues ==
    LimbValues \cup ToStringValues
    \cup {ScaledBy(Small(1), 36), Negate(ScaledBy(Small(1), 36)), ScaledBy(Small(17), 37),
          Negate(ScaledBy(Small(1), 18)), Negate(ScaledBy(Small(123), 20)),
          ScaledBy(Small(1000000007), 18), AboveTenTo18, Negate(AboveTenTo18)}

InitToIntegerString ==
    /\ pc = "start"
    /\ x \in IntegerStringValues
    /\ y = Zero128
    /\ n = NoArgs
    /\ str = <<>>
    /\ ub = "none"
    /\ out = NoOut

\* x.ToIntegerString()
CallToIntegerString ==
    /\ pc = "start"
    /\ pc' = "ToIntegerString"
    /\ out' = [status |-> "OK", text |-> ToIntegerString(x)]
    /\ UNCHANGED <<x, y, n, str, ub>>

NextToIntegerString == CallToIntegerString

SpecToIntegerString == InitToIntegerString /\ [][NextToIntegerString]_vars

MaxBits == 130

ShiftValues ==
    {Small(0), Small(1), Negate(Small(1)), Small(12345), Negate(Small(12345)), AllOnes64,
     Negate(AllOnes64), WideLimbs, Negate(WideLimbs),
     OfLimbs(LimbSeq[4], LimbSeq[1], LimbSeq[1], LimbSeq[1]),
     OfLimbs(LimbSeq[4], LimbSeq[3], LimbSeq[2], LimbSeq[5]),
     OfLimbs(<<\hFFFF, \h7FFF>>, LimbSeq[2], LimbSeq[2], LimbSeq[2]),
     OfLimbs(LimbSeq[6], LimbSeq[4], LimbSeq[3], LimbSeq[6])}

InitShift ==
    /\ pc = "start"
    /\ x \in ShiftValues
    /\ y = Zero128
    /\ n \in [bits : 0..MaxBits]
    /\ str = <<>>
    /\ ub = "none"
    /\ out = NoOut

\* x >>= bits
CallShrAssign ==
    /\ pc = "start"
    /\ pc' = "operator>>="
    /\ x' = OperatorShrAssign(x, n.bits)
    /\ out' = [status |-> "OK", left |-> x]
    /\ UNCHANGED <<y, n, str, ub>>

NextShift == CallShrAssign

SpecShift == InitShift /\ [][NextShift]_vars

\* 2^127 - 1 and -2^127
Max128 == OfLimbs(<<\hFFFF, \h7FFF>>, LimbSeq[2], LimbSeq[2], LimbSeq[2])

Min128 == OfLimbs(LimbSeq[4], LimbSeq[1], LimbSeq[1], LimbSeq[1])

AddSubValues == LimbValues \cup {Max128, Min128}

InitAddSub ==
    /\ pc = "start"
    /\ x \in AddSubValues
    /\ y \in AddSubValues
    /\ n = NoArgs
    /\ str = <<>>
    /\ ub = "none"
    /\ out = NoOut

\* x += y
CallAddAssign ==
    /\ pc = "start"
    /\ pc' = "operator+="
    /\ x' = OperatorAddAssign(x, y)
    /\ out' = [status |-> "OK", left |-> x]
    /\ UNCHANGED <<y, n, str, ub>>

\* x -= y
CallSubAssign ==
    /\ pc = "start"
    /\ pc' = "operator-="
    /\ x' = OperatorSubAssign(x, y)
    /\ out' = [status |-> "OK", left |-> x]
    /\ UNCHANGED <<y, n, str, ub>>

\* x + y
CallAdd ==
    /\ pc = "start"
    /\ pc' = "operator+"
    /\ out' = [status |-> "OK", value |-> OperatorAdd(x, y)]
    /\ UNCHANGED <<x, y, n, str, ub>>

\* x - y
CallSub ==
    /\ pc = "start"
    /\ pc' = "operator-"
    /\ out' = [status |-> "OK", value |-> OperatorSub(x, y)]
    /\ UNCHANGED <<x, y, n, str, ub>>

\* (x + y) - y
CallAddThenSub ==
    /\ pc = "start"
    /\ pc' = "(x + y) - y"
    /\ out' = [status |-> "OK", value |-> OperatorSub(OperatorAdd(x, y), y)]
    /\ UNCHANGED <<x, y, n, str, ub>>

NextAddSub == CallAddAssign \/ CallSubAssign \/ CallAdd \/ CallSub \/ CallAddThenSub

SpecAddSub == InitAddSub /\ [][NextAddSub]_vars

\* a DCHECK is compiled into a debug build only
Builds == {"debug", "release"}

InitToInt64 ==
    /\ pc = "start"
    /\ x \in AddSubValues
    /\ y = Zero128
    /\ n \in [build : Builds]
    /\ str = <<>>
    /\ ub = "none"
    /\ out = NoOut

\* static_cast<int64_t>(x)
CallToInt64 ==
    /\ pc = "start"
    /\ pc' = "operator int64_t"
    /\ out' = IF n.build = "debug" /\ ~ToInt64Check(x)
              THEN [status |-> "Aborted"]
              ELSE [status |-> "OK", value |-> ToInt64(x)]
    /\ UNCHANGED <<x, y, n, str, ub>>

NextToInt64 == CallToInt64

SpecToInt64 == InitToInt64 /\ [][NextToInt64]_vars

----------------------------------------------------------------------------
(* The claims.                                                             *)

\* the exact product of the two 128-bit patterns, reduced modulo 2^128
ProductMod128(a, b) == FromBits128(Mul(Bits128(a), Bits128(b), W128))

\* C1: for all x and y, operator*= and operator* yield the low 128 bits of
\* the full product x * y, for every combination of 32-bit limbs.
C1_MulIsProductMod128 ==
    /\ pc = "operator*" => out.value = ProductMod128(x, y)
    /\ pc = "operator*=" => x = ProductMod128(out.left, y)

\* |d| as an unsigned 128-bit pattern
Magnitude(d) ==
    IF IsNeg64(d.high) THEN Sub(Lit(0, W128), Bits128(d), W128) ELSE Bits128(d)

\* C2: for all x and all y # 0, Divide succeeds with q * y + r = x (mod 2^128),
\* |r| < |y|, and r = 0 or sign(r) = sign(x).
C2_DivideIsTruncatedDivision ==
    (pc = "Divide" /\ y # Zero128) =>
        /\ out.status = "OK"
        /\ FromBits128(Add(Mul(Bits128(out.result), Bits128(y), W128),
                           Bits128(out.remainder), W128)) = x
        /\ Lt(Magnitude(out.remainder), Magnitude(y))
        /\ (out.remainder = Zero128 \/ IsNeg64(out.remainder.high) = IsNeg64(x.high))

WideProduct(v, k) == TimesTen(Cast(Magnitude(v), 2 * W128), k)

\* whether x * 10^k is a signed 128-bit integer: |x| * 10^k < 2^127, or
\* = 2^127 for a negative x
Representable(v, k) ==
    LET limit == Shl(Lit(1, 2 * W128), 127, 2 * W128)
    IN  Lt(WideProduct(v, k), limit) \/ (IsNeg64(v.high) /\ WideProduct(v, k) = limit)

\* x * 10^k, when it is representable
ExactProduct(v, k) ==
    LET low == Cast(WideProduct(v, k), W128)
    IN  FromBits128(IF IsNeg64(v.high) THEN Sub(Lit(0, W128), low, W128) ELSE low)

\* <<|x| \div 10^k, whether |x| is a multiple of 10^k>>
RECURSIVE TenthsOf(_, _, _)
TenthsOf(a, k, exact) ==
    IF k = 0 THEN <<a, exact>>
    ELSE Local([qr \in {DivModSmall(a, 10)}, was_exact \in {exact} |->
             TenthsOf(qr[1], k - 1, was_exact /\ qr[2] = 0)])

IsMultiple(v, k) == TenthsOf(Magnitude(v), k, TRUE)[2]

\* x / 10^k
ExactQuotient(v, k) ==
    LET q == TenthsOf(Magnitude(v), k, TRUE)[1]
    IN  FromBits128(IF IsNeg64(v.high) THEN Sub(Lit(0, W128), q, W128) ELSE q)

\* C4: for every scale increase D in 1..38 and every x with x * 10^D
\* representable in 128 bits, Rescale succeeds and its output is x * 10^D.
C4_RescaleUpIsExact ==
    (/\ pc = "Rescale"
     /\ n.new_scale > n.original_scale
     /\ Representable(x, n.new_scale - n.original_scale)) =>
        /\ out.status = "OK"
        /\ out.out = ExactProduct(x, n.new_scale - n.original_scale)

\* C5: for every scale decrease D in -38..-1 and every x, Rescale succeeds if
\* and only if x is a multiple of 10^|D|; on success its output is x / 10^|D|,
\* and otherwise it reports the loss of data (the status it returns with the
\* message "... would cause data loss").
C5_RescaleDownIffMultiple ==
    (pc = "Rescale" /\ n.new_scale < n.original_scale) =>
        /\ out.status = "OK" <=> IsMultiple(x, n.original_scale - n.new_scale)
        /\ out.status = "OK" => out.out = ExactQuotient(x, n.original_scale - n.new_scale)
        /\ out.status # "OK" =>
              /\ out.status \in {"DataLoss", "Invalid"}
              /\ out.msg[Len(out.msg)] = " would cause data loss"

\* the strings of [+-]?(0*)(\d*)(\.\d+)?([Ee][+-]?\d+)? that hold a digit
AllDigits(s, from, to) == \A i \in from..to : isdigit(s[i])

InGrammar(s) ==
    /\ \E i \in 1..Len(s) : isdigit(s[i])
    /\ \E a \in 0..Min2(1, Len(s)) : \E b \in a..Len(s) : \E c \in b..Len(s) :
          /\ a = 1 => (s[1] = "+" \/ s[1] = "-")
          /\ AllDigits(s, a + 1, b)
          /\ c > b => (s[b + 1] = "." /\ c > b + 1 /\ AllDigits(s, b + 2, c))
          /\ Len(s) > c =>
                /\ s[c + 1] = "E" \/ s[c + 1] = "e"
                /\ \E d \in (c + 1)..(c + 2) :
                      /\ d < Len(s)
                      /\ d = c + 2 => (s[d] = "+" \/ s[d] = "-")
                      /\ AllDigits(s, d + 1, Len(s))

\* C6: FromString returns OK exactly for the strings of the grammar that hold
\* a digit, and Invalid for every other string.
C6_AcceptsExactlyTheGrammar ==
    pc = "FromString" =>
        /\ out.status = "OK" <=> InGrammar(str)
        /\ ~InGrammar(str) => out.status = "Invalid"

\* an E or e that ends the string, or is followed by a sign that ends it
ExponentWithoutDigits(s) ==
    \E i \in 1..Len(s) :
        /\ s[i] = "E" \/ s[i] = "e"
        /\ \/ i = Len(s)
           \/ i + 1 = Len(s) /\ (s[i + 1] = "+" \/ s[i + 1] = "-")

\* C7: for every string whose exponent marker is followed by no digit,
\* FromString returns Invalid, whether or not the scale is requested.
C7_ExponentWithoutDigitsIsInvalid ==
    (pc = "FromString" /\ ExponentWithoutDigits(str)) => out.status = "Invalid"

\* the parts of a decimal string, read off the grammar: the string without its
\* sign, without its leading zeros, and then the digits before the point, the
\* digits after it and the text after the exponent marker
Unsigned(s) == IF s # <<>> /\ (s[1] = "+" \/ s[1] = "-") THEN Tail(s) ELSE s

RECURSIVE DropZeros(_)
DropZeros(s) == IF s # <<>> /\ s[1] = "0" THEN DropZeros(Tail(s)) ELSE s

RECURSIVE DigitPrefix(_)
DigitPrefix(s) ==
    IF s # <<>> /\ isdigit(s[1]) THEN <<s[1]>> \o DigitPrefix(Tail(s)) ELSE <<>>

WholeOf(s) == DigitPrefix(DropZeros(Unsigned(s)))

AfterWhole(s) == SubSeq(DropZeros(Unsigned(s)), Len(WholeOf(s)) + 1, Len(DropZeros(Unsigned(s))))

FractionOf(s) ==
    IF AfterWhole(s) # <<>> /\ AfterWhole(s)[1] = "." THEN DigitPrefix(Tail(AfterWhole(s)))
    ELSE <<>>

HasExponent(s) == \E i \in 1..Len(s) : s[i] = "E" \/ s[i] = "e"

ExponentText(s) ==
    LET i == CHOOSE k \in 1..Len(s) : s[k] = "E" \/ s[k] = "e"
    IN  SubSeq(s, i + 1, Len(s))

\* the integer a signed string of digits denotes
RECURSIVE PowerOfTen(_)
PowerOfTen(k) == IF k = 0 THEN 1 ELSE 10 * PowerOfTen(k - 1)

RECURSIVE SumOfDigits(_, _)
SumOfDigits(s, i) ==
    IF i > Len(s) THEN 0
    ELSE (DigitOf(s[i]) * PowerOfTen(Len(s) - i)) + SumOfDigits(s, i + 1)

IntegerOf(s) ==
    IF s # <<>> /\ s[1] = "-" THEN 0 - SumOfDigits(Tail(s), 1)
    ELSE IF s # <<>> /\ s[1] = "+" THEN SumOfDigits(Tail(s), 1)
    ELSE SumOfDigits(s, 1)

\* the 128-bit integer a string of digits denotes, digit by digit
RECURSIVE Horner(_, _, _)
Horner(s, i, acc) ==
    IF i > Len(s) THEN acc
    ELSE Local([acc1 \in {Add(MulSmall(acc, 10), Lit(DigitOf(s[i]), W128), W128)} |->
             Horner(s, i + 1, acc1)])

ValueOf(s) ==
    LET magnitude == Horner(WholeOf(s) \o FractionOf(s), 1, Lit(0, W128))
    IN  FromBits128(IF s[1] = "-" THEN Sub(Lit(0, W128), magnitude, W128) ELSE magnitude)

AllZerosNoPoint(s) == Unsigned(s) # <<>> /\ \A i \in 1..Len(Unsigned(s)) : Unsigned(s)[i] = "0"

\* C8: for every accepted string of at most 38 significant digits that is not
\* all zeros, precision = whole digits + fractional digits, scale = fractional
\* digits without an exponent and -exp + precision - 1 with one, and the value
\* is the integer whole+fractional denotes, negated iff the string starts with
\* '-'; for an all-zero string without a point, value = 0, scale = 0 and
\* precision = the number of zeros.
C8_FromStringOutputs ==
    (/\ pc = "FromString"
     /\ out.status = "OK"
     /\ Len(WholeOf(str)) + Len(FractionOf(str)) <= 38) =>
        IF AllZerosNoPoint(str)
        THEN /\ out.out = Zero128
             /\ n.scale_requested => out.scale = 0
             /\ out.precision = Len(Unsigned(str))
        ELSE /\ out.precision = Len(WholeOf(str)) + Len(FractionOf(str))
             /\ (n.scale_requested /\ ~HasExponent(str)) => out.scale = Len(FractionOf(str))
             /\ (n.scale_requested /\ HasExponent(str)) =>
                   out.scale = (0 - IntegerOf(ExponentText(str))) + out.precision - 1
             /\ out.out = ValueOf(str)

C8_Witness ==
    /\ pc = "FromString"
    /\ out.status = "OK"
    /\ n.scale_requested
    /\ HasExponent(str)
    /\ str[1] = "-"
    /\ WholeOf(str) # <<>>
    /\ FractionOf(str) # <<>>
    /\ out.scale > 0

\* the number a decimal string denotes: coefficient * 10^exponent, with the
\* coefficient free of leading and trailing zeros (zero: no digits, exponent 0)
RECURSIVE Canonical(_, _, _)
Canonical(negative, digits, exponent) ==
    IF digits = <<>> THEN [negative |-> FALSE, digits |-> <<>>, exponent |-> 0]
    ELSE IF digits[Len(digits)] = "0"
    THEN Canonical(negative, SubSeq(digits, 1, Len(digits) - 1), exponent + 1)
    ELSE [negative |-> negative, digits |-> digits, exponent |-> exponent]

Denoted(s) ==
    Canonical(s[1] = "-", DropZeros(WholeOf(s) \o FractionOf(s)),
              (IF HasExponent(s) THEN IntegerOf(ExponentText(s)) ELSE 0) - Len(FractionOf(s)))

\* C9: for every accepted string s of at most 38 significant digits,
\* ToString of the value and scale FromString returns for s denotes the same
\* number as s.
C9_RoundTrip ==
    (pc = "ToString" /\ Len(WholeOf(str)) + Len(FractionOf(str)) <= 38) =>
        Denoted(out.text) = Denoted(str)

\* the shape [-]d[.ddd]E(+|-)n with n = exponent
ScientificShape(s, exponent) ==
    LET body == IF s # <<>> /\ s[1] = "-" THEN Tail(s) ELSE s
        fraction == IF Len(body) >= 2 /\ body[2] = "." THEN DigitPrefix(SubSeq(body, 3, Len(body)))
                    ELSE <<>>
        mantissa == IF Len(body) >= 2 /\ body[2] = "." THEN 2 + Len(fraction) ELSE 1
        rest == SubSeq(body, mantissa + 1, Len(body))
    IN  /\ body # <<>> /\ isdigit(body[1])
        /\ (Len(body) >= 2 /\ body[2] = ".") => fraction # <<>>
        /\ Len(rest) >= 3
        /\ rest[1] = "E"
        /\ rest[2] = "+" \/ rest[2] = "-"
        /\ AllDigits(rest, 3, Len(rest))
        /\ IntegerOf(Tail(rest)) = exponent

\* C10: with scale # 0, ToString emits scientific notation iff scale < 0 or
\* adjusted_exponent = -scale + (number of digits - 1) < -6, in the shape
\* [-]d[.ddd]E(+|-)n with one integer digit, a point only before a fractional
\* digit, and the signed exponent adjusted_exponent; with scale = 0 the output
\* is the integer string.
C10_ToStringShape ==
    pc = "ToString" =>
        LET integer == ToIntegerString(x)
            digits == Len(Unsigned(integer))
            adjusted_exponent == (0 - out.scale) + (digits - 1)
            scientific == \E i \in 1..Len(out.text) : out.text[i] = "E"
        IN  IF out.scale = 0 THEN out.text = integer
            ELSE /\ scientific <=> (out.scale < 0 \/ adjusted_exponent < 0 - 6)
                 /\ scientific => ScientificShape(out.text, adjusted_exponent)

\* the plain form of the integer string digits at the given scale: one or
\* more integer digits ("0" when digits has none before the point), the
\* point, and exactly scale fractional digits, left-padded with zeros
PlainShape(body, digits, scale) ==
    LET point == Len(body) - scale
        whole == SubSeq(body, 1, point - 1)
        fraction == SubSeq(body, point + 1, Len(body))
    IN  /\ point >= 2
        /\ body[point] = "."
        /\ AllDigits(body, 1, point - 1)
        /\ AllDigits(body, point + 1, Len(body))
        /\ Len(fraction) = scale
        /\ IF Len(digits) > scale
           THEN whole \o fraction = digits
           ELSE /\ whole = <<"0">>
                /\ \A i \in 1..(scale - Len(digits)) : fraction[i] = "0"
                /\ SubSeq(fraction, scale - Len(digits) + 1, scale) = digits

\* C11: with scale > 0 and adjusted_exponent >= -6, ToString emits plain
\* notation: a '-' prefix iff the value is negative, then at least one
\* integer digit ('0' when no digit stands before the point), the point, and
\* exactly scale fractional digits, left-padded with scale - (digit count)
\* zeros; without point and padding the digits are those of the integer string.
C11_ToStringPlain ==
    (/\ pc = "ToString"
     /\ out.scale > 0
     /\ (0 - out.scale) + (Len(Unsigned(ToIntegerString(x))) - 1) >= 0 - 6) =>
        /\ out.text # <<>>
        /\ (out.text[1] = "-") <=> OperatorLt(x, Zero128)
        /\ PlainShape(Unsigned(out.text), Unsigned(ToIntegerString(x)), out.scale)

\* a negative value printed in plain form with padding zeros
C11_Witness ==
    /\ pc = "ToString"
    /\ OperatorLt(x, Zero128)
    /\ out.scale > Len(Unsigned(ToIntegerString(x)))
    /\ (0 - out.scale) + (Len(Unsigned(ToIntegerString(x))) - 1) >= 0 - 6
    /\ SubSeq(out.text, 1, 4) = <<"-", "0", ".", "0">>
    /\ Len(out.text) = out.scale + 3

\* the canonical decimal representation of the signed 128-bit value d
SignedDecimal(d) ==
    IF IsNeg64(d.high) THEN <<"-">> \o DecimalFrom(Magnitude(d), <<>>)
    ELSE DecimalFrom(Bits128(d), <<>>)

\* C12: for every 128-bit value x, ToIntegerString returns the canonical
\* decimal representation of x as a signed integer: one leading '-' iff
\* x < 0, no leading zeros ("0" for zero), at most 39 digits.
C12_ToIntegerStringIsCanonical ==
    pc = "ToIntegerString" =>
        /\ out.text = SignedDecimal(x)
        /\ Len(Unsigned(out.text)) <= 39

\* floor(d / 2^k) for the signed d: the arithmetic shift of the 128-bit
\* pattern, the sign fill in both halves from k = 128 on
ArithmeticShift(d, k) ==
    IF IsNeg64(d.high) THEN FromBits128(Not(Shr(Not(Bits128(d)), k)))
    ELSE FromBits128(Shr(Bits128(d), k))

\* C13: for every x and every n >= 0, x >>= n is the arithmetic shift of the
\* signed 128-bit value: floor(x / 2^n) for n < 128, the sign fill in both
\* halves for n >= 128; a negative x stays negative.
C13_ShiftRightIsArithmetic ==
    pc = "operator>>=" =>
        /\ x = ArithmeticShift(out.left, n.bits)
        /\ IsNeg64(out.left.high) => IsNeg64(x.high)

\* the exact sum and difference of the two 128-bit patterns, modulo 2^128
SumMod128(a, b) == FromBits128(Add(Bits128(a), Bits128(b), W128))

DifferenceMod128(a, b) == FromBits128(Sub(Bits128(a), Bits128(b), W128))

\* C14: for all x and y, x + y and x - y (and +=, -=) are the exact sum and
\* difference modulo 2^128 in two's complement, the carry or borrow out of
\* the low half entering the high half exactly when it occurs; so
\* (x + y) - y = x.
C14_AddSubMod128 ==
    /\ pc = "operator+=" => x = SumMod128(out.left, y)
    /\ pc = "operator-=" => x = DifferenceMod128(out.left, y)
    /\ pc = "operator+" => out.value = SumMod128(x, y)
    /\ pc = "operator-" => out.value = DifferenceMod128(x, y)
    /\ pc = "(x + y) - y" => out.value = x

\* a difference with a borrow out of the low half, and past -2^127
C14_Witness ==
    /\ pc = "operator-="
    /\ Lt(out.left.low, y.low)
    /\ out.left = Min128
    /\ ~IsNeg64(x.high)

\* C15: Rescale has no silent overflow: for every x and every scale increase
\* D in 1..38, when Rescale succeeds x * 10^D is representable in signed 128
\* bits and the output is that exact product.
C15_RescaleUpSuccessIsExact ==
    (/\ pc = "Rescale"
     /\ n.new_scale > n.original_scale
     /\ out.status = "OK") =>
        /\ Representable(x, n.new_scale - n.original_scale)
        /\ out.out = ExactProduct(x, n.new_scale - n.original_scale)

\* C16: whenever high_bits_ is 0 or -1, the conversion to int64_t returns
\* the value: the returned integer, sign-extended to 128 bits (high the sign
\* fill, low the bits), is the original pair (high, low).
C16_ToInt64IsValue ==
    (pc = "operator int64_t" /\ ToInt64Check(x)) =>
        /\ out.status = "OK"
        /\ FromInt64(out.value) = x

=============================================================================
